---- MODULE Spec2Model ----
(***************************************************************************)
(* Model of the ffmpeg-server HTTP service (src/app.py): six request       *)
(* handlers that stage uploads in a TemporaryDirectory, run ffmpeg or      *)
(* ffprobe as a subprocess, and turn the outcome into an HTTP response.    *)
(*                                                                         *)
(* A request is a record of what the client sent (req) together with what  *)
(* the environment does to it (env): which subprocess launch exits         *)
(* non-zero, what that process wrote on stderr, what the probe printed,    *)
(* and whether a file operation raises OSError.  The filesystem is shared  *)
(* by all requests; the handlers are split at their subprocess launches    *)
(* and file writes so that requests interleave.                            *)
(***************************************************************************)
EXTENDS Integers, Sequences, FiniteSets, TLC

VARIABLES req, env, pc, tmp, dirs, files, staged, filters, timestamps, launched, resp

vars == <<req, env, pc, tmp, dirs, files, staged, filters, timestamps, launched, resp>>

-----------------------------------------------------------------------------
(* Bounds *)

NumReqs == 2
MaxThumbs == 3
MaxDur == 3
MaxFrames == 2
MaxNum == 31
MaxDen == 4

Reqs == 1..NumReqs

-----------------------------------------------------------------------------
(* Python values and conversions *)

\* Python's None, as returned by dict.get for a missing key.
None == "None"

\* dict.get(key) on a JSON object, modelled as a record.
Get(d, key) == IF key \in DOMAIN d THEN d[key] ELSE None

Digits == <<"0", "1", "2", "3", "4", "5", "6", "7", "8", "9">>

IsDigit(c) == \E i \in 1..10 : Digits[i] = c

DigitVal(c) == (CHOOSE i \in 1..10 : Digits[i] = c) - 1

\* The decimal digits of n >= 0, as the probe prints them.
RECURSIVE Dec(_)
Dec(n) == IF n < 10 THEN <<Digits[n + 1]>> ELSE Append(Dec(n \div 10), Digits[(n % 10) + 1])

\* int(s) on a string of characters: ValueError unless s is a non-empty run of digits.
RECURSIVE DigitsValue(_)
DigitsValue(s) == IF s = <<>> THEN 0 ELSE 10 * DigitsValue(SubSeq(s, 1, Len(s) - 1)) + DigitVal(s[Len(s)])

ParseInt(s) ==
    IF s # <<>> /\ \A i \in 1..Len(s) : IsDigit(s[i])
    THEN [ok |-> TRUE, value |-> DigitsValue(s)]
    ELSE [ok |-> FALSE, value |-> 0]

\* s.split(sep): the parts of s between the occurrences of the character sep.
RECURSIVE Split(_, _)
Split(s, sep) ==
    IF \A i \in 1..Len(s) : s[i] # sep
    THEN <<s>>
    ELSE LET k == CHOOSE i \in 1..Len(s) : s[i] = sep /\ \A j \in 1..(i - 1) : s[j] # sep
         IN  <<SubSeq(s, 1, k - 1)>> \o Split(SubSeq(s, k + 1, Len(s)), sep)

\* Faulty variant of Round: int(num / den), which truncates.
Truncate(num, den) == num \div den

\* round(num / den) for num >= 0, den > 0: Python rounds a tie to the even integer.
Round(num, den) ==
    LET q == num \div den
        r == num % den
    IN  IF 2 * r < den THEN q
        ELSE IF 2 * r > den THEN q + 1
        ELSE IF q % 2 = 0 THEN q ELSE q + 1

\* Lines 120-121: num, den = map(int, r_frame_rate.split("/")); fps = round(num / den).
\* The unpacking needs exactly two parts, int() needs digits, the division a non-zero den.
FpsOf(r_frame_rate) ==
    LET parts == Split(r_frame_rate, "/")
    IN  IF Len(parts) # 2 THEN [ok |-> FALSE, error |-> "ValueError", fps |-> 0]
        ELSE LET num == ParseInt(parts[1])
                 den == ParseInt(parts[2])
             IN  IF ~num.ok \/ ~den.ok THEN [ok |-> FALSE, error |-> "ValueError", fps |-> 0]
                 ELSE IF den.value = 0 THEN [ok |-> FALSE, error |-> "ZeroDivisionError", fps |-> 0]
                 ELSE [ok |-> TRUE, error |-> "", fps |-> Round(num.value, den.value)]

\* str.lstrip('#') on a string of characters.
RECURSIVE LStrip(_)
LStrip(s) == IF s # <<>> /\ s[1] = "#" THEN LStrip(Tail(s)) ELSE s

\* str(i).zfill(6), for the frame file names.
RECURSIVE Zeros(_)
Zeros(k) == IF k <= 0 THEN "" ELSE "0" \o Zeros(k - 1)

ZFill6(i) == Zeros(6 - Len(ToString(i))) \o ToString(i)

\* float(stdout) for the duration probe: the printed seconds, or ValueError ("N/A").
ParseFloat(stdout) ==
    IF \E d \in 0..(MaxDur + 1) : ToString(d) = stdout
    THEN [ok |-> TRUE, value |-> CHOOSE d \in 0..(MaxDur + 1) : ToString(d) = stdout]
    ELSE [ok |-> FALSE, value |-> 0]

\* What subprocess.run captured of the child's stderr: bytes, or str under text=True.
\* The tools' diagnostics are UTF-8 text.
Captured(textMode, raw) == [type |-> IF textMode THEN "str" ELSE "bytes", text |-> raw]

\* e.stderr.decode(): bytes decode to their text; str has no decode (AttributeError).
Decode(captured) ==
    IF captured.type = "str" THEN [ok |-> FALSE, error |-> "AttributeError", text |-> ""]
    ELSE [ok |-> TRUE, error |-> "", text |-> captured.text]

-----------------------------------------------------------------------------
(* Requests: what the client sends *)

Ops == {"concatenate", "standardize", "specs", "combine-frames", "process-video", "generate-thumbnails"}

Contents == {"a", "b"}

Upload(filename, data) == [filename |-> filename, data |-> data]

\* A complete overlay descriptor, and one that lacks every key but text.
Overlay(text) ==
    [text |-> text, fontSize |-> 24, fontFamily |-> "Arial", x |-> 10, y |-> 20,
     color |-> <<"#", "f", "f">>, backgroundColor |-> <<"#", "0", "0">>]

\* json.loads(overlays) on the overlays strings the model sends: the parsed list,
\* or JSONDecodeError for text that is not JSON.
JsonLoads(s) ==
    CASE s = "[]" -> [ok |-> TRUE, value |-> <<>>]
      [] s = "[{hi}]" -> [ok |-> TRUE, value |-> <<Overlay("hi")>>]
      [] s = "[{hi},{yo}]" -> [ok |-> TRUE, value |-> <<Overlay("hi"), Overlay("yo")>>]
      [] s = "[{text:hi}]" -> [ok |-> TRUE, value |-> <<[text |-> "hi"]>>]
      [] OTHER -> [ok |-> FALSE, value |-> <<>>]

OverlayStrings == {"[]", "[{hi}]", "[{hi},{yo}]", "[{text:hi}]", "[{"}

FpsValues == {-1, 0, 30}

Request(op, uploads, fps, overlays, n) ==
    [op |-> op, uploads |-> uploads, fps |-> fps, overlays |-> overlays, num_thumbnails |-> n]

VideoUploads == {<<Upload("in.mp4", c)>> : c \in Contents}

FrameFiles == {Upload(f, c) : f \in {"frames.zip", "frame.jpg"}, c \in Contents}

FrameUploads == UNION {[1..k -> FrameFiles] : k \in 1..MaxFrames}

RequestsOf(op) ==
    CASE op = "concatenate" ->
            {Request(op, <<Upload("one.mp4", c1), Upload("two.mp4", c2)>>, 0, "", 0) : c1 \in Contents, c2 \in Contents}
      [] op = "standardize" -> {Request(op, u, 0, "", 0) : u \in VideoUploads}
      [] op = "specs" -> {Request(op, <<Upload("in.mp4", "a")>>, 0, "", 0)}
      [] op = "combine-frames" -> {Request(op, u, f, "", 0) : u \in FrameUploads, f \in FpsValues}
      [] op = "process-video" ->
            {Request(op, <<Upload("in.mp4", "a")>>, f, o, 0) : f \in FpsValues, o \in OverlayStrings}
      [] op = "generate-thumbnails" ->
            {Request(op, <<Upload("in.mp4", "a")>>, 0, "", n) : n \in (-2)..MaxThumbs}

-----------------------------------------------------------------------------
(* Environment: what the external tools and the filesystem do to a request *)

\* The probe's r_frame_rate strings: "n/d", and one without a slash.
FrameRates == {Dec(n) \o <<"/">> \o Dec(d) : n \in 0..MaxNum, d \in 0..MaxDen} \cup {Dec(30)}

\* What ffprobe prints for -show_entries stream=codec_name,width,height,r_frame_rate,bit_rate
\* and format=bit_rate,format_name,size; some containers report no stream bit_rate.
Stream(rate) ==
    [codec_name |-> "h264", width |-> 1920, height |-> 1080, r_frame_rate |-> rate, bit_rate |-> "800000"]

StreamNoBitrate(rate) == [codec_name |-> "vp9", width |-> 640, height |-> 360, r_frame_rate |-> rate]

Format == [format_name |-> "mov,mp4", size |-> "1048576", bit_rate |-> "900000"]

ProbeOutputs ==
    {[streams |-> <<Stream(rate)>>, format |-> Format] : rate \in FrameRates}
    \cup {[streams |-> <<StreamNoBitrate(Dec(30) \o <<"/">> \o Dec(1))>>, format |-> Format]}
    \cup {[streams |-> <<>>, format |-> Format], [format |-> Format]}

DefaultProbe == [format |-> Format]

\* What the duration probe prints on stdout.
DurationOutputs == {ToString(d) : d \in 0..MaxDur} \cup {"N/A"}

StderrTexts == {"", "Invalid data found"}

NoStderr == ""

IoFaults == {"ok", "write", "read"}

\* failAt = k > 0: the k-th subprocess the request launches exits non-zero, with stderr.
\* io: the request's file writes, or its reading of the output, raise OSError.
Env(failAt, stderr, io, probe, stdout) ==
    [failAt |-> failAt, stderr |-> stderr, io |-> io, probe |-> probe, stdout |-> stdout]

Failures(maxLaunch) ==
    {<<0, NoStderr>>}
    \cup {<<k, t>> : k \in 1..maxLaunch, t \in StderrTexts}

EnvsOf(op) ==
    CASE op = "specs" ->
            {Env(f[1], f[2], io, p, "") : f \in Failures(1), io \in IoFaults, p \in ProbeOutputs}
      [] op = "generate-thumbnails" ->
            {Env(f[1], f[2], io, DefaultProbe, d) : f \in Failures(MaxThumbs + 1), io \in IoFaults, d \in DurationOutputs}
      [] OTHER -> {Env(f[1], f[2], io, DefaultProbe, "") : f \in Failures(1), io \in IoFaults}

Scenarios == UNION {RequestsOf(op) \X EnvsOf(op) : op \in Ops}

\* The scenarios of the concurrent specification: one or two per operation, with
\* different upload contents under the same file names.
QuietEnv(failAt) == Env(failAt, "Invalid data found", "ok", [streams |-> <<Stream(Dec(30) \o <<"/">> \o Dec(1))>>, format |-> Format], "2")

ConcScenarios ==
    { <<Request("concatenate", <<Upload("one.mp4", "a"), Upload("two.mp4", "b")>>, 0, "", 0), QuietEnv(0)>>,
      <<Request("concatenate", <<Upload("one.mp4", "b"), Upload("two.mp4", "b")>>, 0, "", 0), QuietEnv(1)>>,
      <<Request("standardize", <<Upload("in.mp4", "b")>>, 0, "", 0), QuietEnv(0)>>,
      <<Request("specs", <<Upload("in.mp4", "a")>>, 0, "", 0), QuietEnv(0)>>,
      <<Request("combine-frames", <<Upload("frame.jpg", "a")>>, 30, "", 0), QuietEnv(0)>>,
      <<Request("process-video", <<Upload("in.mp4", "a")>>, 30, "[{hi}]", 0), QuietEnv(0)>>,
      <<Request("generate-thumbnails", <<Upload("in.mp4", "a")>>, 0, "", 1), QuietEnv(0)>>,
      <<Request("generate-thumbnails", <<Upload("in.mp4", "b")>>, 0, "", 1), QuietEnv(2)>> }

-----------------------------------------------------------------------------
(* The filesystem: dirs is the set of directories, files maps a path to its content. *)

DirIds == {"/tmp/tmp" \o ToString(i) : i \in 1..NumReqs}

NoDir == ""

\* Faulty variant of MkDTemp: one fixed working directory for every request.
MkDTempFixed(existing) == {"/tmp/tmp1"}

\* tempfile.mkdtemp (behind TemporaryDirectory): a name that does not exist yet.
MkDTemp(existing) == {d \in DirIds : <<d>> \notin existing}

\* os.path.join(temp_dir, name).
Join(d, name) == <<d, name>>

ThumbName(i) == "thumb_" \o ToString(i) \o ".jpg"

ThumbPath(d, i) == <<d, "thumbnails", ThumbName(i)>>

FrameName(i) == "frame_" \o ZFill6(i) \o ".jpg"

WriteFile(fs, path, data) == [p \in (DOMAIN fs) \cup {path} |-> IF p = path THEN data ELSE fs[p]]

\* Faulty variant of RmTreeDirs: mkdtemp without a cleanup, the directory stays.
KeepDirs(ds, d) == ds

\* TemporaryDirectory.__exit__: the directory and everything below it is removed.
RmTreeDirs(ds, d) == {p \in ds : p[1] # d}

RmTreeFiles(fs, d) == [p \in {q \in DOMAIN fs : q[1] # d} |-> fs[p]]

\* os.listdir(thumbnails_dir).
ListThumbnails(fs, d) == {p \in DOMAIN fs : Len(p) = 3 /\ p[1] = d /\ p[2] = "thumbnails"}

-----------------------------------------------------------------------------
(* Responses *)

NoResp == [status |-> 0, kind |-> "none", body |-> <<>>, exc |-> ""]

\* Response(content=result, media_type=...) and the JSON record of /specs.
Ok(kind, body) == [status |-> 200, kind |-> kind, body |-> body, exc |-> ""]

\* raise HTTPException(status_code, detail): the body is {"detail": detail}; detail is
\* kept as the pieces the f-string joins.
HTTPException(status, detail) == [status |-> status, kind |-> "detail", body |-> detail, exc |-> "HTTPException"]

\* Any other exception leaves the handler uncaught: the framework answers
\* 500 "Internal Server Error".
ServerError(exc) == [status |-> 500, kind |-> "text/plain", body |-> <<"Internal Server Error">>, exc |-> exc]

\* Faulty variant of CheckRaises: check=False, the exit status is ignored.
CheckIgnored(exit) == FALSE

\* subprocess.run(check=True) raises CalledProcessError on a non-zero exit status.
CheckRaises(exit) == exit # 0

\* except subprocess.CalledProcessError as e: raise HTTPException(500, prefix + e.stderr.decode()).
OnCalledProcessError(prefix, captured) ==
    LET dec == Decode(captured)
    IN  IF dec.ok THEN HTTPException(500, <<prefix, dec.text>>) ELSE ServerError(dec.error)

-----------------------------------------------------------------------------
(* The handlers' computations *)

TranscodeOps == {"concatenate", "standardize", "combine-frames", "process-video"}

OverlayKeys == {"text", "fontSize", "fontFamily", "x", "y", "color", "backgroundColor"}

\* Lines 198-209: the drawtext filter of one overlay.
DrawText(overlay) ==
    [text |-> overlay.text, fontsize |-> overlay.fontSize,
     fontfile |-> "/path/to/fonts/" \o overlay.fontFamily \o ".ttf",
     x |-> overlay.x, y |-> overlay.y,
     fontcolor |-> <<"0", "x">> \o LStrip(overlay.color),
     boxcolor |-> <<"0", "x">> \o LStrip(overlay.backgroundColor)]

\* Lines 192-214: json.loads, then one filter per overlay; a missing key is a KeyError.
BuildFilters(overlays) ==
    LET parsed == JsonLoads(overlays)
    IN  IF ~parsed.ok THEN [ok |-> FALSE, error |-> "JSONDecodeError", filters |-> <<>>]
        ELSE IF \E i \in 1..Len(parsed.value) : ~(OverlayKeys \subseteq DOMAIN parsed.value[i])
        THEN [ok |-> FALSE, error |-> "KeyError", filters |-> <<>>]
        ELSE [ok |-> TRUE, error |-> "", filters |-> [i \in 1..Len(parsed.value) |-> DrawText(parsed.value[i])]]

\* What ffmpeg writes to output.mp4 for each command line, from the inputs it read.
Transcoded(op, inputs, fps, vf) ==
    CASE op = "concatenate" -> [out |-> "concat", inputs |-> inputs, r |-> "", vf |-> <<>>]
      [] op = "standardize" -> [out |-> "standardize", inputs |-> inputs, r |-> "30", vf |-> <<"scale=-1080:1920">>]
      [] op = "combine-frames" -> [out |-> "frames", inputs |-> inputs, r |-> ToString(fps), vf |-> <<>>]
      [] op = "process-video" -> [out |-> "overlay", inputs |-> inputs, r |-> ToString(fps), vf |-> vf]

\* The frame of one thumbnail: -ss timestamp -i input -vframes 1.
Thumbnail(input, ss) == [out |-> "thumb", input |-> input, ss |-> ss]

\* The files ffmpeg reads for frame_%06d.jpg: frame_000000.jpg onwards, while they exist.
RECURSIVE FramesRead(_, _, _)
FramesRead(fs, d, i) ==
    IF Join(d, FrameName(i)) \in DOMAIN fs
    THEN <<fs[Join(d, FrameName(i))]>> \o FramesRead(fs, d, i + 1)
    ELSE <<>>

\* The inputs ffmpeg reads for a transcode, from the staged files.
InputsRead(op, fs, d) ==
    CASE op = "concatenate" ->
            LET list == fs[Join(d, "concat.txt")] IN [i \in 1..Len(list) |-> fs[list[i]]]
      [] op = "combine-frames" -> FramesRead(fs, d, 0)
      [] OTHER -> <<fs[Join(d, "input.mp4")]>>

\* Where the i-th upload of a request is written.
StagePath(op, d, i) ==
    CASE op = "concatenate" -> Join(d, IF i = 1 THEN "video1.mp4" ELSE "video2.mp4")
      [] op = "combine-frames" -> Join(d, FrameName(i - 1))
      [] OTHER -> Join(d, "input.mp4")

EmptyDict == [k \in {} |-> None]

\* Lines 115-131: the record /specs returns for the probe's JSON.
SpecsResponse(info) ==
    LET streams == IF "streams" \in DOMAIN info THEN info.streams ELSE <<EmptyDict>>
    IN  IF streams = <<>> THEN ServerError("IndexError")
        ELSE LET video_stream == streams[1]
             IN  IF DOMAIN video_stream = {} THEN HTTPException(500, <<"No video stream found">>)
                 ELSE IF "r_frame_rate" \notin DOMAIN video_stream THEN ServerError("KeyError")
                 ELSE LET rate == FpsOf(video_stream.r_frame_rate)
                      IN  IF ~rate.ok THEN ServerError(rate.error)
                          ELSE Ok("json",
                                  [format |-> Get(video_stream, "format_name"),
                                   size |-> Get(video_stream, "size"),
                                   fps |-> rate.fps,
                                   width |-> Get(video_stream, "width"),
                                   height |-> Get(video_stream, "height"),
                                   codec |-> Get(video_stream, "codec_name"),
                                   bitrate |-> Get(video_stream, "bit_rate")])

\* A timestamp is the exact quotient num / den.
Frac(num, den) == [num |-> num, den |-> den]

\* Faulty variant of Timestamps: range(0, n), the first frame at position 0.
TimestampsFromZero(duration, n) == [i \in 1..n |-> Frac(duration * (i - 1), n + 1)]

\* Lines 241-242: interval = duration / (n + 1); timestamps = [interval * i for i in range(1, n + 1)].
Timestamps(duration, n) == [i \in 1..n |-> Frac(duration * i, n + 1)]

\* Lines 238-242: float(stdout), then the timestamps; n = -1 divides by zero.
PlanThumbnails(stdout, n) ==
    LET duration == ParseFloat(stdout)
    IN  IF ~duration.ok THEN [ok |-> FALSE, error |-> "ValueError", timestamps |-> <<>>]
        ELSE IF n + 1 = 0 THEN [ok |-> FALSE, error |-> "ZeroDivisionError", timestamps |-> <<>>]
        ELSE [ok |-> TRUE, error |-> "", timestamps |-> Timestamps(duration.value, n)]

\* A subprocess launch: the tool, what it was asked for, the -ss position, the exit status.
Launch(tool, what, ss, exit) == [tool |-> tool, what |-> what, ss |-> ss, exit |-> exit]

NoSeek == Frac(0, 1)

\* The exit status of the k-th launch of request r.
ExitOf(r, k) == IF env[r].failAt = k THEN 1 ELSE 0

-----------------------------------------------------------------------------
(* State *)

Op(r) == req[r].op

Idle == <<Request("standardize", <<Upload("in.mp4", "a")>>, 0, "", 0), Env(0, NoStderr, "ok", DefaultProbe, "")>>

Start(scenario, active) ==
    /\ req = [r \in Reqs |-> scenario[r][1]]
    /\ env = [r \in Reqs |-> scenario[r][2]]
    /\ pc = [r \in Reqs |-> IF r \in active THEN "recv" ELSE "off"]
    /\ tmp = [r \in Reqs |-> NoDir]
    /\ dirs = {}
    /\ files = [p \in {} |-> ""]
    /\ staged = [r \in Reqs |-> 0]
    /\ filters = [r \in Reqs |-> <<>>]
    /\ timestamps = [r \in Reqs |-> <<>>]
    /\ launched = [r \in Reqs |-> <<>>]
    /\ resp = [r \in Reqs |-> NoResp]

\* One request, of any operation, with any input and any environment.
Init == \E s \in Scenarios : Start([r \in Reqs |-> IF r = 1 THEN s ELSE Idle], {1})

\* NumReqs requests at once.
InitConc == \E s \in [Reqs -> ConcScenarios] : Start(s, Reqs)

\* The handler returns or raises out of the with block: the response is fixed and
\* TemporaryDirectory removes the request's directory.
Leave(r, response) ==
    /\ resp' = [resp EXCEPT ![r] = response]
    /\ pc' = [pc EXCEPT ![r] = "done"]
    /\ dirs' = RmTreeDirs(dirs, tmp[r])
    /\ files' = RmTreeFiles(files, tmp[r])

-----------------------------------------------------------------------------
(* Actions *)

\* Lines 190-216 (behind the endpoint, lines 289-292): parse the overlays and build
\* the filters before process_video_with_overlays is called.
ProcessVideo(r) ==
    /\ pc[r] = "recv"
    /\ Op(r) = "process-video"
    /\ LET built == BuildFilters(req[r].overlays)
       IN  IF built.ok
           THEN /\ filters' = [filters EXCEPT ![r] = built.filters]
                /\ pc' = [pc EXCEPT ![r] = "parsed"]
                /\ resp' = resp
           ELSE /\ resp' = [resp EXCEPT ![r] = ServerError(built.error)]
                /\ pc' = [pc EXCEPT ![r] = "done"]
                /\ filters' = filters
    /\ UNCHANGED <<req, env, tmp, dirs, files, staged, timestamps, launched>>

\* with tempfile.TemporaryDirectory() as temp_dir (and os.makedirs(thumbnails_dir)).
EnterTempDir(r) ==
    /\ \/ pc[r] = "recv" /\ Op(r) # "process-video"
       \/ pc[r] = "parsed"
    /\ \E d \in MkDTemp(dirs) :
         /\ tmp' = [tmp EXCEPT ![r] = d]
         /\ dirs' = dirs \cup {<<d>>} \cup (IF Op(r) = "generate-thumbnails" THEN {<<d, "thumbnails">>} ELSE {})
    /\ pc' = [pc EXCEPT ![r] = "stage"]
    /\ UNCHANGED <<req, env, files, staged, filters, timestamps, launched, resp>>

\* f.write(await upload.read()) for the next upload; concatenate writes concat.txt
\* right after its second video.
StageUpload(r) ==
    /\ pc[r] = "stage"
    /\ LET i == staged[r] + 1
           d == tmp[r]
           path == StagePath(Op(r), d, i)
           one == WriteFile(files, path, req[r].uploads[i].data)
           all == IF Op(r) = "concatenate" /\ i = 2
                  THEN WriteFile(one, Join(d, "concat.txt"), <<Join(d, "video1.mp4"), Join(d, "video2.mp4")>>)
                  ELSE one
       IN  IF env[r].io = "write" \/ <<d>> \notin dirs
           THEN /\ Leave(r, ServerError("OSError"))
                /\ staged' = staged
           ELSE /\ files' = all
                /\ staged' = [staged EXCEPT ![r] = i]
                /\ pc' = [pc EXCEPT ![r] = IF i = Len(req[r].uploads) THEN "run" ELSE "stage"]
                /\ UNCHANGED <<dirs, resp>>
    /\ UNCHANGED <<req, env, tmp, filters, timestamps, launched>>

\* The ffmpeg call of concatenate, standardize, frames-to-video and overlay-processing:
\* run it, read output.mp4 back and return it, or turn CalledProcessError into a 500.
RunFfmpeg(r) ==
    /\ pc[r] = "run"
    /\ Op(r) \in TranscodeOps
    /\ LET d == tmp[r]
           exit == ExitOf(r, Len(launched[r]) + 1)
           out == Transcoded(Op(r), InputsRead(Op(r), files, d), req[r].fps, filters[r])
           written == WriteFile(files, Join(d, "output.mp4"), out)
       IN  /\ launched' = [launched EXCEPT ![r] = Append(@, Launch("ffmpeg", Op(r), NoSeek, exit))]
           /\ IF CheckRaises(exit)
              THEN Leave(r, OnCalledProcessError("FFmpeg error: ", Captured(FALSE, env[r].stderr)))
              ELSE IF env[r].io = "read"
              THEN Leave(r, ServerError("OSError"))
              ELSE Leave(r, Ok("video/mp4", written[Join(d, "output.mp4")]))
    /\ UNCHANGED <<req, env, tmp, staged, filters, timestamps>>

\* Lines 102-133: ffprobe writes info.json; the handler loads it and builds the record.
GetVideoSpecs(r) ==
    /\ pc[r] = "run"
    /\ Op(r) = "specs"
    /\ LET d == tmp[r]
           exit == ExitOf(r, Len(launched[r]) + 1)
           written == WriteFile(files, Join(d, "info.json"), env[r].probe)
       IN  /\ launched' = [launched EXCEPT ![r] = Append(@, Launch("ffprobe", "specs", NoSeek, exit))]
           /\ IF CheckRaises(exit)
              THEN Leave(r, OnCalledProcessError("FFprobe error: ", Captured(FALSE, env[r].stderr)))
              ELSE IF env[r].io = "read"
              THEN Leave(r, ServerError("OSError"))
              ELSE Leave(r, SpecsResponse(written[Join(d, "info.json")]))
    /\ UNCHANGED <<req, env, tmp, staged, filters, timestamps>>

\* Lines 231-242: the duration probe (text=True) and the timestamps.
ProbeDuration(r) ==
    /\ pc[r] = "run"
    /\ Op(r) = "generate-thumbnails"
    /\ LET exit == ExitOf(r, Len(launched[r]) + 1)
           plan == PlanThumbnails(env[r].stdout, req[r].num_thumbnails)
       IN  /\ launched' = [launched EXCEPT ![r] = Append(@, Launch("ffprobe", "duration", NoSeek, exit))]
           /\ IF CheckRaises(exit)
              THEN /\ Leave(r, OnCalledProcessError("FFmpeg error: ", Captured(TRUE, env[r].stderr)))
                   /\ timestamps' = timestamps
              ELSE IF ~plan.ok
              THEN /\ Leave(r, ServerError(plan.error))
                   /\ timestamps' = timestamps
              ELSE /\ timestamps' = [timestamps EXCEPT ![r] = plan.timestamps]
                   /\ pc' = [pc EXCEPT ![r] = "thumbs"]
                   /\ UNCHANGED <<dirs, files, resp>>
    /\ UNCHANGED <<req, env, tmp, staged, filters>>

\* Lines 245-255: one pass of the loop, the ffmpeg call for thumb_i.jpg.
ExtractThumbnail(r) ==
    /\ pc[r] = "thumbs"
    /\ Len(launched[r]) - 1 < Len(timestamps[r])
    /\ LET d == tmp[r]
           i == Len(launched[r]) - 1
           ss == timestamps[r][i + 1]
           exit == ExitOf(r, Len(launched[r]) + 1)
       IN  /\ launched' = [launched EXCEPT ![r] = Append(@, Launch("ffmpeg", ThumbName(i), ss, exit))]
           /\ IF CheckRaises(exit)
              THEN Leave(r, OnCalledProcessError("FFmpeg error: ", Captured(FALSE, env[r].stderr)))
              ELSE /\ files' = WriteFile(files, ThumbPath(d, i), Thumbnail(files[Join(d, "input.mp4")], ss))
                   /\ UNCHANGED <<pc, dirs, resp>>
    /\ UNCHANGED <<req, env, tmp, staged, filters, timestamps>>

\* Lines 258-264: zip what os.listdir finds in the thumbnails directory and return it.
ZipThumbnails(r) ==
    /\ pc[r] = "thumbs"
    /\ Len(launched[r]) - 1 = Len(timestamps[r])
    /\ IF env[r].io = "read"
       THEN Leave(r, ServerError("OSError"))
       ELSE Leave(r, Ok("application/zip",
                        {[name |-> p[3], data |-> files[p]] : p \in ListThumbnails(files, tmp[r])}))
    /\ UNCHANGED <<req, env, tmp, staged, filters, timestamps, launched>>

Next ==
    \E r \in Reqs :
        \/ ProcessVideo(r)
        \/ EnterTempDir(r)
        \/ StageUpload(r)
        \/ RunFfmpeg(r)
        \/ GetVideoSpecs(r)
        \/ ProbeDuration(r)
        \/ ExtractThumbnail(r)
        \/ ZipThumbnails(r)

Spec == Init /\ [][Next]_vars

SpecConc == InitConc /\ [][Next]_vars

-----------------------------------------------------------------------------
(* Properties *)

Active == {r \in Reqs : pc[r] # "off"}

Finished == {r \in Reqs : pc[r] = "done"}

InHandler(r) == pc[r] \in {"stage", "run", "thumbs"}

\* Nothing of request r's temporary directory is left in the filesystem.
TempDirGone(r) ==
    /\ \A p \in dirs : p[1] # tmp[r]
    /\ \A p \in DOMAIN files : p[1] # tmp[r]

FailedLaunch(r) == \E i \in 1..Len(launched[r]) : launched[r][i].exit # 0

\* C1: for every operation and every way the handler ends (return, tool failure, any
\* other exception), the request's temporary directory is gone once the handler has
\* ended; it exists exactly while the handler is inside its with block.
C1_TempDirScoped ==
    \A r \in Active :
        /\ pc[r] \in {"recv", "parsed"} => tmp[r] = NoDir
        /\ InHandler(r) => <<tmp[r]>> \in dirs
        /\ pc[r] = "done" => TempDirGone(r)

\* A handler that created its directory, launched its tool and then failed reading
\* the output has ended.
C1_Witness ==
    \E r \in Finished : tmp[r] # NoDir /\ launched[r] # <<>> /\ resp[r].exc = "OSError"

\* The response body carries the text.
BodyContains(response, text) ==
    \/ text = ""
    \/ \E i \in 1..Len(response.body) : response.body[i] = text

\* C2: whenever a subprocess of a request exits non-zero, the request ends with a 5xx
\* status and a body that contains the tool's stderr text.
C2_StderrSurfaced ==
    \A r \in Finished :
        FailedLaunch(r) =>
            /\ resp[r].status \in 500..599
            /\ resp[r].kind \in {"detail", "text/plain"}
            /\ BodyContains(resp[r], env[r].stderr)

\* The request did not succeed: its response, once there, is an error response.
Rejected(r) == pc[r] = "done" => resp[r].status >= 400

IsArchive(upload) == upload.filename = "frames.zip"

\* The request was answered as a client error.
ClientError(r) == pc[r] = "done" => resp[r].status \in 400..499

AllArchives(r) == \A i \in 1..Len(req[r].uploads) : IsArchive(req[r].uploads[i])

\* C3: frames-to-video and overlay-processing reject fps <= 0 and launch no subprocess
\* (stated for requests that are valid but for their fps).
C3_NonPositiveFpsRejected ==
    \A r \in Active :
        /\ (Op(r) = "combine-frames" /\ AllArchives(r) /\ req[r].fps <= 0) =>
               launched[r] = <<>> /\ Rejected(r)
        /\ (Op(r) = "process-video" /\ BuildFilters(req[r].overlays).ok /\ req[r].fps <= 0) =>
               launched[r] = <<>> /\ Rejected(r)

\* C4: frames-to-video rejects an upload that is not an archive and launches no
\* subprocess (stated for requests with a positive fps).
C4_NonArchiveRejected ==
    \A r \in Active :
        (Op(r) = "combine-frames" /\ ~AllArchives(r) /\ req[r].fps > 0) =>
            launched[r] = <<>> /\ Rejected(r)

\* C5: overlay-processing answers overlays that are not well-formed JSON with a 4xx
\* status and launches no subprocess.
C5_MalformedJsonRejected ==
    \A r \in Active :
        (Op(r) = "process-video" /\ ~JsonLoads(req[r].overlays).ok) =>
            launched[r] = <<>> /\ ClientError(r)

\* C6: nothing is retried: a launch that exited non-zero is the last launch of its
\* request, and the request has ended in failure with its temporary directory removed.
C6_NoRetry ==
    \A r \in Active :
        \A i \in 1..Len(launched[r]) :
            launched[r][i].exit # 0 =>
                /\ i = Len(launched[r])
                /\ pc[r] = "done"
                /\ resp[r].status \in 500..599
                /\ TempDirGone(r)

\* A thumbnail request whose frame extraction failed with thumbnails still to make.
C6_Witness ==
    \E r \in Finished :
        /\ Op(r) = "generate-thumbnails"
        /\ Len(launched[r]) >= 2
        /\ launched[r][Len(launched[r])].exit # 0
        /\ Len(launched[r]) - 1 < Len(timestamps[r])


\* What request rq answers under environment ev when it is the only request: the
\* handler's code run start to finish on the request's own uploads.
AloneResponse(rq, ev) ==
    LET built == IF rq.op = "process-video" THEN BuildFilters(rq.overlays)
                 ELSE [ok |-> TRUE, error |-> "", filters |-> <<>>]
        inputs == [i \in 1..Len(rq.uploads) |-> rq.uploads[i].data]
        plan == PlanThumbnails(ev.stdout, rq.num_thumbnails)
    IN  IF ~built.ok THEN ServerError(built.error)
        ELSE IF ev.io = "write" THEN ServerError("OSError")
        ELSE IF rq.op \in TranscodeOps THEN
            IF ev.failAt = 1 THEN OnCalledProcessError("FFmpeg error: ", Captured(FALSE, ev.stderr))
            ELSE IF ev.io = "read" THEN ServerError("OSError")
            ELSE Ok("video/mp4", Transcoded(rq.op, inputs, rq.fps, built.filters))
        ELSE IF rq.op = "specs" THEN
            IF ev.failAt = 1 THEN OnCalledProcessError("FFprobe error: ", Captured(FALSE, ev.stderr))
            ELSE IF ev.io = "read" THEN ServerError("OSError")
            ELSE SpecsResponse(ev.probe)
        ELSE
            IF ev.failAt = 1 THEN OnCalledProcessError("FFmpeg error: ", Captured(TRUE, ev.stderr))
            ELSE IF ~plan.ok THEN ServerError(plan.error)
            ELSE IF ev.failAt \in 2..(Len(plan.timestamps) + 1)
            THEN OnCalledProcessError("FFmpeg error: ", Captured(FALSE, ev.stderr))
            ELSE IF ev.io = "read" THEN ServerError("OSError")
            ELSE Ok("application/zip",
                    {[name |-> ThumbName(i - 1), data |-> Thumbnail(inputs[1], plan.timestamps[i])] :
                        i \in 1..Len(plan.timestamps)})

SameResponse(a, b) == a.status = b.status /\ a.kind = b.kind /\ a.exc = b.exc /\ a.body = b.body

\* The local state of request r.
Local(r) == <<pc[r], tmp[r], staged[r], launched[r], resp[r]>>

\* The part of the filesystem below directory d.
Tree(ds, fs, d) == <<{p \in ds : p[1] = d}, [p \in {q \in DOMAIN fs : q[1] = d} |-> fs[p]]>>

\* Requests inside their handlers have different directories, every file and directory
\* belongs to such a request, and a finished request answered as it does alone.
C7_Isolated ==
    /\ \A r1, r2 \in Reqs : (r1 # r2 /\ InHandler(r1) /\ InHandler(r2)) => tmp[r1] # tmp[r2]
    /\ \A p \in dirs \cup DOMAIN files : \E r \in Reqs : InHandler(r) /\ p[1] = tmp[r]
    /\ \A r \in Finished : SameResponse(resp[r], AloneResponse(req[r], env[r]))

\* A step that is not a step of request r leaves r's directory as it is.
C7_OwnDirOnly ==
    \A r \in Reqs :
        (InHandler(r) /\ Local(r)' = Local(r)) => Tree(dirs', files', tmp[r]) = Tree(dirs, files, tmp[r])

\* C7: requests share no mutable state: under every interleaving of concurrent requests
\* each request works only inside its own temporary directory, the directories of
\* different requests are different, and each response is the one the request gets alone.
C7_NoSharedState == [](C7_Isolated) /\ [][C7_OwnDirOnly]_vars

\* Two requests are inside their handlers at once, with different contents staged
\* under the same file name.
C7_Witness ==
    \E r1, r2 \in Reqs :
        /\ r1 # r2
        /\ pc[r1] = "run" /\ pc[r2] = "run"
        /\ Join(tmp[r1], "input.mp4") \in DOMAIN files
        /\ Join(tmp[r2], "input.mp4") \in DOMAIN files
        /\ files[Join(tmp[r1], "input.mp4")] # files[Join(tmp[r2], "input.mp4")]

\* The probe of request r reported a video stream with frame rate "n/d".
ProbedRate(r, n, d) ==
    /\ Op(r) = "specs"
    /\ env[r].failAt = 0 /\ env[r].io = "ok"
    /\ "streams" \in DOMAIN env[r].probe
    /\ env[r].probe.streams # <<>>
    /\ env[r].probe.streams[1].r_frame_rate = Dec(n) \o <<"/">> \o Dec(d)

Abs(x) == IF x < 0 THEN -x ELSE x

\* C8: for a probed frame rate "n/d" with n >= 0 and d > 0, the fps of the returned
\* record is n/d when d divides n ("30/1" gives 30), and otherwise an integer nearest
\* to n/d.
C8_FpsFromFraction ==
    \A r \in Finished : \A n \in 0..(MaxNum + 1), d \in 1..(MaxDen + 1) :
        ProbedRate(r, n, d) =>
            /\ resp[r].status = 200
            /\ resp[r].kind = "json"
            /\ (n % d = 0) => resp[r].body.fps * d = n
            /\ \A k \in 0..(MaxNum + 2) : Abs(resp[r].body.fps * d - n) <= Abs(k * d - n)

\* The record for a probe that reported "30/1", and for one whose fraction is no integer.
C8_Witness ==
    /\ \E r \in Finished : ProbedRate(r, 30, 1) /\ resp[r].status = 200 /\ resp[r].body.fps = 30
    \/ \E r \in Finished : ProbedRate(r, 5, 3) /\ resp[r].status = 200 /\ resp[r].body.fps = 2

\* C9: when the probe succeeds and reports a video stream, the record has exactly the
\* fields format, size, fps, width, height, codec, bitrate; format and size are the
\* format section's format_name and size, and width, height, codec, bitrate are the
\* first video stream's width, height, codec_name, bit_rate.
C9_SpecsRecord ==
    \A r \in Finished :
        (Op(r) = "specs" /\ resp[r].status = 200) =>
            LET info == env[r].probe
                body == resp[r].body
            IN  /\ DOMAIN body = {"format", "size", "fps", "width", "height", "codec", "bitrate"}
                /\ body.width = info.streams[1].width
                /\ body.height = info.streams[1].height
                /\ body.codec = info.streams[1].codec_name
                /\ body.bitrate = Get(info.streams[1], "bit_rate")
                /\ body.format = info.format.format_name
                /\ body.size = info.format.size

\* Exact comparison of timestamps: a < b, and a = num / den.
Less(a, b) == a.num * b.den < b.num * a.den

Equals(a, num, den) == a.num * den = num * a.den

\* Request r made thumbnails: n >= 1 of them, of a video of duration D > 0, every
\* subprocess exited zero, no file operation failed, and the handler has ended.
ThumbnailsMade(r, n, D) ==
    /\ Op(r) = "generate-thumbnails"
    /\ pc[r] = "done"
    /\ req[r].num_thumbnails = n
    /\ env[r].stdout = ToString(D)
    /\ env[r].io = "ok"
    /\ ~FailedLaunch(r)

\* C10: thumbnail-generation with n >= 1, duration D > 0 and every subprocess exiting
\* zero launches one duration probe and then n frame extractions, the i-th at
\* i*D/(n+1) (evenly spaced, increasing, strictly between 0 and D), and returns a zip
\* of exactly n entries thumb_0.jpg .. thumb_(n-1).jpg.
C10_Thumbnails ==
    \A r \in Reqs : \A n \in 1..(MaxThumbs + 1), D \in 1..(MaxDur + 1) :
        ThumbnailsMade(r, n, D) =>
            LET l == launched[r]
            IN  /\ Len(l) = n + 1
                /\ l[1].tool = "ffprobe" /\ l[1].what = "duration"
                /\ \A i \in 1..n :
                     /\ l[i + 1].tool = "ffmpeg"
                     /\ l[i + 1].what = ThumbName(i - 1)
                     /\ Equals(l[i + 1].ss, i * D, n + 1)
                     /\ Less(Frac(0, 1), l[i + 1].ss) /\ Less(l[i + 1].ss, Frac(D, 1))
                     /\ i > 1 => Less(l[i].ss, l[i + 1].ss)
                /\ resp[r].status = 200
                /\ resp[r].kind = "application/zip"
                /\ Cardinality(resp[r].body) = n
                /\ {e.name : e \in resp[r].body} = {ThumbName(i) : i \in 0..(n - 1)}

\* A finished request for three thumbnails of a video of duration 2.
C10_Witness == \E r \in Reqs : ThumbnailsMade(r, 3, 2) /\ resp[r].status = 200

====
